---- MODULE Spec2Model ----
(***************************************************************************)
(* SirtepAPI: the orchestrator (SirtepService), the in-memory task         *)
(* registry (TaskService) and the file cache (StorageService over three    *)
(* SirtepStorage namespaces).                                              *)
(*                                                                         *)
(* Time is counted in whole hours (the only resolution the actuality test  *)
(* of the cache looks at).  The upstream "updated_at" stamp is counted in  *)
(* sub-second ticks; the version token the code derives from it drops the  *)
(* sub-second part (.replace(microsecond=0)).                              *)
(*                                                                         *)
(* Strings that the code builds, splits, globs and sorts (file names, task *)
(* ids) are sequences of character codes ordered as in ASCII:              *)
(*   "-" < "." < "0".."9" < "_"                                            *)
(***************************************************************************)
EXTENDS Integers, Sequences, FiniteSets, TLC

VARIABLES
    now,        \* wall clock, hours
    upstream,   \* upstream scenario "updated_at", sub-second ticks
    cache,      \* namespace -> set of cached files
    tasks,      \* TaskService.tasks : task id -> ProvisionTask
    jobs,       \* background calculate_provision jobs, in launch order
    reqs,       \* request handlers (coroutines) that have not answered yet
    served,     \* number of requests accepted so far
    reply,      \* the answer of the handler (or sweep) that finished last
    outcome,    \* how the last direct call of the TaskService ended
    probe       \* a computation applied on its own: its arguments and result

vars == <<now, upstream, cache, tasks, jobs, reqs, served, reply, outcome, probe>>

----------------------------------------------------------------------------
(* Bounds of the model *)

MaxTime      == 2   \* the clock stops advancing here
MaxUpstream  == 2   \* number of upstream modifications
MaxRequests  == 2   \* number of requests served
SubSecond    == 2   \* upstream ticks per second

----------------------------------------------------------------------------
(* Characters and strings *)

Space == 0
Dash  == 1
Dot   == 2
Under == 13
Digit(d) == d + 3
Digits == {Digit(d) : d \in 0..9}

\* None where a number is expected, and the ValueError of strptime
None == -1

RECURSIVE StrOfInt(_)
\* str(n) for a non-negative int
StrOfInt(n) == IF n < 10 THEN <<Digit(n)>>
               ELSE StrOfInt(n \div 10) \o <<Digit(n % 10)>>

\* datetime.strftime: fixed-width fields, here "<day><sep><hh>", with the
\* separator the format string puts between the date and the time part
StrfTime(t, sep) == <<Digit((t \div 100) % 10), sep, Digit((t \div 10) % 10), Digit(t % 10)>>

\* datetime.strptime with the same field layout; None stands for ValueError
StrpTime(s, sep) ==
    IF /\ Len(s) = 4
       /\ s[2] = sep
       /\ \A i \in {1, 3, 4} : s[i] \in Digits
    THEN (s[1] - 3) * 100 + (s[3] - 3) * 10 + (s[4] - 3)
    ELSE None

RECURSIVE Join(_)
\* "_".join(parts)
Join(parts) ==
    IF Len(parts) = 0 THEN <<>>
    ELSE IF Len(parts) = 1 THEN parts[1]
    ELSE parts[1] \o <<Under>> \o Join(Tail(parts))

\* s.split(c)[0]
FirstPiece(s, c) ==
    LET cs == {i \in 1..Len(s) : s[i] = c}
    IN  IF cs = {} THEN s
        ELSE SubSeq(s, 1, (CHOOSE i \in cs : \A k \in cs : i <= k) - 1)

\* s.split(c)[-1]
LastPiece(s, c) ==
    LET cs == {i \in 1..Len(s) : s[i] = c}
    IN  IF cs = {} THEN s
        ELSE SubSeq(s, (CHOOSE i \in cs : \A k \in cs : k <= i) + 1, Len(s))

\* a < b in the order list.sort() gives strings
StrLess(a, b) ==
    \E i \in 1..Len(b) :
        /\ \A k \in 1..(i - 1) : k <= Len(a) /\ a[k] = b[k]
        /\ (i > Len(a) \/ a[i] < b[i])

\* pathlib glob of "*<mid>*<ext>"
GlobMatch(name, mid, ext) ==
    /\ Len(name) >= Len(mid) + Len(ext)
    /\ SubSeq(name, Len(name) - Len(ext) + 1, Len(name)) = ext
    /\ \E i \in 1..(Len(name) - Len(ext) - Len(mid) + 1) :
           SubSeq(name, i, i + Len(mid) - 1) = mid

----------------------------------------------------------------------------
(* Requests: SchedulerDTO / ProvisionDTO *)

\* PROVISION_PROFILES with the priority profiles counted in
PROVISION_PROFILES_Wide == {1, 2, 3, 4, 5, 6, 7, 8, 9, 10, 11, 12, 13}

PROVISION_PROFILES == {1, 2, 8, 10, 11, 12, 13}
PRIORITY_PROFILES  == {3, 4, 5, 6, 7, 9}
ProvisionDTOProfiles == {1, 2, 8}

\* <<scenario_id, profile_id, periods, max_area_per_period>>
ParamSets == { <<1, 1, 2, 4>>, <<1, 1, 2, 45>>, <<1, 3, 2, 4>>, <<1, 14, 2, 4>> }

request_params_as_list(p) == [i \in 1..4 |-> StrOfInt(p[i])]

\* strptime(updated_at, "...%S.%fZ").replace(microsecond=0)
ScenarioUpdate(u) == u \div SubSecond

\* the format of the version suffix and of the date in a file name
VersionStr(v) == StrfTime(v, Dash)

----------------------------------------------------------------------------
(* The file cache: SirtepStorage and StorageService *)

Namespaces == {"matrix", "provision", "response"}

\* the words "matrix", "provision", "response", ".parquet", ".pickle"
KindStr(ns) == CASE ns = "matrix"    -> <<14>>
                 [] ns = "provision" -> <<15>>
                 [] ns = "response"  -> <<16>>
ExtStr(ns) == IF ns = "response" THEN <<Dot, 18>> ELSE <<Dot, 17>>

\* config.get("actuality"), hours
Actuality == 2

\* Cacheable.to_file: separator.join([date, name, *args]) + ext
FileName(ns, date, args) ==
    Join(<<date, KindStr(ns)>> \o args) \o ExtStr(ns)

\* Save that keeps one file per request parameters: the files of the other
\* versions are replaced
Save_OneVersion(c, ns, t, args, payload) ==
    LET name == FileName(ns, StrfTime(t, Dash), args)
        mid  == Join(<<KindStr(ns)>> \o SubSeq(args, 1, Len(args) - 1) \o <<<<>>>>)
    IN  [c EXCEPT ![ns] = {f \in @ : ~GlobMatch(f.name, mid, ExtStr(ns))}
                            \cup {[name |-> name, payload |-> payload]}]

\* Storage.save(cacheable, name, ext, datetime.now(), *args): one file per
\* name, an existing file of the same name is overwritten
Save(c, ns, t, args, payload) ==
    LET name == FileName(ns, StrfTime(t, Dash), args)
    IN  [c EXCEPT ![ns] = {f \in @ : f.name # name}
                            \cup {[name |-> name, payload |-> payload]}]

\* SirtepStorage.retrieve_cached_file: the empty string when nothing fits
retrieve_cached_file(c, ns, t, args) ==
    LET mid   == Join(<<KindStr(ns)>> \o args)
        files == {f.name : f \in {g \in c[ns] : GlobMatch(g.name, mid, ExtStr(ns))}}
        \* files.sort(reverse=True); the first one within the actuality span
        fresh == {n \in files :
                    LET date == StrpTime(FirstPiece(n, Under), Dash)
                    IN  date # None /\ t - date < Actuality}
    IN  IF fresh = {} THEN <<>>
        ELSE CHOOSE n \in fresh : \A m \in fresh : m = n \/ StrLess(m, n)

get_actual_cache_name(c, ns, t, args) == retrieve_cached_file(c, ns, t, args)

PayloadOf(c, ns, name) == (CHOOSE f \in c[ns] : f.name = name).payload

\* StorageService.read_df / read_response, for a file name that was found
ReadCached(c, ns, t, args) ==
    PayloadOf(c, ns, retrieve_cached_file(c, ns, t, args))

\* the version a cached file name carries:
\* strptime(cache_name.split(".")[0].split("_")[-1], "%Y-%m-%d-%H-%M-%S")
last_scenario_update(cache_name) ==
    StrpTime(LastPiece(FirstPiece(cache_name, Dot), Under), Dash)

\* StorageService.get_storage_irrelevant_cache: the date of every file name
\* is parsed with "%Y-%m-%d %H:%M:%S"; raised tells that strptime raised
\* ValueError on a string of another layout
CACHE_ACTUALITY == 1

get_storage_irrelevant_cache(files, t) ==
    LET dateOf(n) == StrpTime(FirstPiece(FirstPiece(n, Dot), Under), Space)
    IN  IF \E f \in files : dateOf(f.name) = None
        THEN [raised |-> TRUE, files |-> {}]
        ELSE [raised |-> FALSE,
              files  |-> {f \in files : t - dateOf(f.name) > CACHE_ACTUALITY}]

----------------------------------------------------------------------------
(* TaskService *)

\* TaskStatus
IN_QUEUE  == "in_queue"
PENDING   == "pending"
COMPLETED == "complited"
FAILED    == "failed"
TaskStatus == {IN_QUEUE, PENDING, COMPLETED, FAILED}

\* create_task that registers the task under the request parameters alone,
\* without the last argument (the version)
create_task_NoVersion(ts, t, args) ==
    LET task_id == Join(SubSeq(args, 1, Len(args) - 1))
    IN  [id \in DOMAIN ts \cup {task_id} |->
            IF id = task_id
            THEN [status |-> "in_queue", start_time |-> t,
                  details |-> None, task_progress |-> 0]
            ELSE ts[id]]

\* TaskService.create_task("tep", *args): an existing task of the same id
\* is replaced
create_task(ts, t, args) ==
    LET task_id == Join(args)
    IN  [id \in DOMAIN ts \cup {task_id} |->
            IF id = task_id
            THEN [status |-> "in_queue", start_time |-> t,
                  details |-> None, task_progress |-> 0]
            ELSE ts[id]]

\* the check_task decorator
check_task(ts, task_id) == task_id \in DOMAIN ts

\* TaskService.__set_task_attribute__ behind set_task_status,
\* set_task_progress and set_task_details (the id has passed check_task)
set_task_status(ts, task_id, status) ==
    [ts EXCEPT ![task_id].status = status]

set_task_progress(ts, task_id, progress) ==
    [ts EXCEPT ![task_id].task_progress = progress]

set_task_details(ts, task_id, details) ==
    [ts EXCEPT ![task_id].details = details]

\* TaskService.delete_task
delete_task(ts, task_id) == [id \in DOMAIN ts \ {task_id} |-> ts[id]]

----------------------------------------------------------------------------
(* What the awaited collaborators hand to calculate_schedule: the parsed   *)
(* buildings and services, the binary access matrix and the optimizer's    *)
(* built periods.  acc is the set of matrix cells holding a value > 0.     *)

DataSets == {"plain", "nobody", "single"}

\* the content of the scenario after each upstream modification
ScenarioData(u) == <<"nobody", "plain", "single">>[(u % 3) + 1]

DataSet(d) ==
    CASE d = "plain" ->
           [pop   |-> (1 :> 100 @@ 2 :> 50 @@ 3 :> 200),
            bper  |-> (1 :> 0 @@ 2 :> 1 @@ 3 :> 1),
            cap   |-> (1 :> 30 @@ 2 :> 70),
            stype |-> (1 :> 7 @@ 2 :> 7),
            sper  |-> (1 :> 0 @@ 2 :> None),
            types |-> <<7>>,
            acc   |-> {1, 2, 3} \X {1, 2}]
      [] d = "nobody" ->
           \* the only building that reaches the type-8 service is empty;
           \* type 7 has the larger radius, so every building reaches its
           \* service (see filter_matrix)
           [pop   |-> (1 :> 100 @@ 2 :> 0),
            bper  |-> (1 :> 0 @@ 2 :> 0),
            cap   |-> (1 :> 30 @@ 2 :> 70),
            stype |-> (1 :> 7 @@ 2 :> 8),
            sper  |-> (1 :> 0 @@ 2 :> 0),
            types |-> <<7, 8>>,
            acc   |-> {<<1, 1>>, <<2, 1>>, <<2, 2>>}]
      [] d = "single" ->
           [pop   |-> (1 :> 100),
            bper  |-> (1 :> 0),
            cap   |-> (1 :> 30),
            stype |-> (1 :> 7),
            sper  |-> (1 :> 1),
            types |-> <<7>>,
            acc   |-> {<<1, 1>>}]

----------------------------------------------------------------------------
(* SirtepService.calculate_provision *)

RECURSIVE Sum(_, _)
Sum(f, S) == IF S = {} THEN 0
             ELSE LET x == CHOOSE y \in S : TRUE IN f[x] + Sum(f, S \ {x})

\* Python's round(): to the nearest integer, ties to the even one
Round(num, den) ==
    LET q == num \div den
        r == num % den
    IN  IF 2 * r < den THEN q
        ELSE IF 2 * r > den THEN q + 1
        ELSE IF q % 2 = 0 THEN q ELSE q + 1

\* BuiltBy without the comparison to the period of the loop
BuiltBy_Ever(per, period) == {i \in DOMAIN per : per[i] # None}

\* BuiltBy with == in place of <=: the entities built in the period itself
BuiltBy_InPeriod(per, period) == {i \in DOMAIN per : per[i] # None /\ per[i] = period}

\* BuiltBy without the dropna: an unset period (None, below every period)
\* passes the comparison
BuiltBy_NoDropna(per, period) == {i \in DOMAIN per : per[i] <= period}

\* ids whose built period is set and <= period (dropna, then df["period"] <= period)
BuiltBy(per, period) == {i \in DOMAIN per : per[i] # None /\ per[i] <= period}

\* the exception int() raises on the inf or nan a zero demand produces
CellError == None

\* CurrentTypeServices with a selection that is carried over the loop of the
\* types: the services of every type listed up to this one
CurrentTypeServices_Carried(d, period, service_type_id) ==
    {s \in BuiltBy(d.sper, period) :
        \E i \in 1..Len(d.types) :
            /\ d.stype[s] = d.types[i]
            /\ \E j \in i..Len(d.types) : d.types[j] = service_type_id}

\* current_type_services: the services of the type built by the period
CurrentTypeServices(d, period, service_type_id) ==
    {s \in BuiltBy(d.sper, period) : d.stype[s] = service_type_id}

\* the index and the columns of
\* available_matrix[available_matrix > 0].dropna(all, rows).dropna(all, columns)
AvailableIndex(d, period, service_type_id) ==
    {b \in BuiltBy(d.bper, period) :
        \E s \in CurrentTypeServices(d, period, service_type_id) : <<b, s>> \in d.acc}

AvailableColumns(d, period, service_type_id) ==
    {s \in CurrentTypeServices(d, period, service_type_id) :
        \E b \in BuiltBy(d.bper, period) : <<b, s>> \in d.acc}

\* demand and capacity of a cell: the sums over that index and those columns
CellDemand(d, period, service_type_id) ==
    Sum(d.pop, AvailableIndex(d, period, service_type_id))

CellCapacity(d, period, service_type_id) ==
    Sum(d.cap, AvailableColumns(d, period, service_type_id))

\* one (period, service type) cell
ProvisionCell(d, period, service_type_id) ==
    LET current_type_services == CurrentTypeServices(d, period, service_type_id)
        rows == AvailableIndex(d, period, service_type_id)
        demand   == CellDemand(d, period, service_type_id)
        capacity == CellCapacity(d, period, service_type_id)
    IN  IF current_type_services = {} THEN 0
        ELSE IF rows = {} THEN 0
        ELSE IF demand = 0 THEN CellError
        ELSE Round(capacity * 10000, demand) \div 100   \* int(round(x, 2))

NumCells(d, num_periods) == num_periods * Len(d.types)
CellPeriod(d, k) == (k - 1) \div Len(d.types)
CellType(d, k)   == d.types[((k - 1) % Len(d.types)) + 1]

\* total_to_process = len(buildings_built_periods) * len(service_types)
total_to_process(d) == Cardinality(DOMAIN d.bper) * Len(d.types)

\* the progress set after `processed` cells
ProgressAfter(d, processed) == Round(processed * 100, total_to_process(d))

\* FirstFailure of a loop that goes on after a cell that cannot be computed
FirstFailure_GoesOn(d, num_periods) == 0

\* the first cell at which the loop raises (0: none): the cell itself
\* fails, or the progress update divides by a zero total
FirstFailure(d, num_periods) ==
    LET bad == {k \in 1..NumCells(d, num_periods) :
                  \/ ProvisionCell(d, CellPeriod(d, k), CellType(d, k)) = CellError
                  \/ total_to_process(d) = 0}
    IN  IF bad = {} THEN 0 ELSE CHOOSE k \in bad : \A m \in bad : k <= m

\* cells whose progress update has been made when the loop stops
CellsReported(d, num_periods) ==
    LET k == FirstFailure(d, num_periods)
    IN  IF k = 0 THEN NumCells(d, num_periods) ELSE k - 1

\* result_df
ResultTable(d, num_periods) ==
    [period \in 0..(num_periods - 1) |->
        [t \in {d.types[i] : i \in 1..Len(d.types)} |-> ProvisionCell(d, period, t)]]

\* calculate_provision with the final status set before store_df is called
TasksAfterProvision_StatusFirst(ts, task_id, d, num_periods, stored) ==
    LET started  == set_task_status(ts, task_id, "pending")
        reported == CellsReported(d, num_periods)
        looped   == IF reported = 0 THEN started
                    ELSE set_task_progress(started, task_id, ProgressAfter(d, reported))
    IN  IF FirstFailure(d, num_periods) = 0
        THEN set_task_status(looped, task_id, "complete d")
        ELSE looped

\* the task record as calculate_provision leaves it: "pending" first, the
\* progress of the last reported cell, the final status only after store_df
\* has returned
TasksAfterProvision(ts, task_id, d, num_periods, stored) ==
    LET started  == set_task_status(ts, task_id, "pending")
        reported == CellsReported(d, num_periods)
        looped   == IF reported = 0 THEN started
                    ELSE set_task_progress(started, task_id, ProgressAfter(d, reported))
    IN  IF FirstFailure(d, num_periods) = 0 /\ stored
        THEN set_task_status(looped, task_id, "complete d")
        ELSE looped

----------------------------------------------------------------------------
(* State *)

NoResult == [kind |-> "none", status |-> "", progress |-> 0, body |-> <<>>]
NoReply == [op |-> "", at |-> "", params |-> <<>>, ver |-> 0, result |-> NoResult]
NoOutcome == [op |-> "", id |-> <<>>, result |-> ""]
NoProbe == [fn |-> "", done |-> FALSE]

Init ==
    /\ now = 0
    /\ upstream = 0
    /\ cache = [ns \in Namespaces |-> {}]
    /\ tasks = <<>>
    /\ jobs = <<>>
    /\ reqs = <<>>
    /\ served = 0
    /\ reply = NoReply
    /\ outcome = NoOutcome
    /\ probe = NoProbe

Remove(seq, i) == SubSeq(seq, 1, i - 1) \o SubSeq(seq, i + 1, Len(seq))

\* handler r answers (returns or raises) and is gone
Finish(r, result) ==
    /\ reqs' = Remove(reqs, r)
    /\ reply' = [op |-> reqs[r].op, at |-> reqs[r].pc,
                 params |-> reqs[r].params, ver |-> reqs[r].ver,
                 result |-> result]

----------------------------------------------------------------------------
(* The environment *)

\* an hour passes
Tick ==
    /\ now < MaxTime
    /\ now' = now + 1
    /\ UNCHANGED <<upstream, cache, tasks, jobs, reqs, served, reply, outcome, probe>>

\* the scenario is modified upstream
UpdateScenario ==
    /\ upstream < MaxUpstream
    /\ upstream' = upstream + 1
    /\ UNCHANGED <<now, cache, tasks, jobs, reqs, served, reply, outcome, probe>>

----------------------------------------------------------------------------
(* SirtepService.calculate_schedule, cut at its awaits *)

\* the request arrives and get_scenario_info has answered
CS_Request(p) ==
    /\ served < MaxRequests
    /\ served' = served + 1
    /\ reqs' = Append(reqs, [op |-> "calculate_schedule", params |-> p,
                             pc |-> "check", ver |-> ScenarioUpdate(upstream)])
    /\ UNCHANGED <<now, upstream, cache, tasks, jobs, reply, outcome, probe>>

\* a response file for the request parameters carries the version read
ResponseHit(c, t, params, ver) ==
    LET cache_name == get_actual_cache_name(c, "response", t, request_params_as_list(params))
    IN  cache_name # <<>> /\ last_scenario_update(cache_name) = ver

\* CS_Check without the early return on a cache hit
CS_Check_NoEarlyReturn(r) ==
    /\ r \in DOMAIN reqs
    /\ reqs[r].op = "calculate_schedule"
    /\ reqs[r].pc = "check"
    /\ LET params == reqs[r].params
       IN  IF params[2] \in PROVISION_PROFILES
           THEN reqs' = [reqs EXCEPT ![r].pc = "compute"] /\ UNCHANGED reply
           ELSE IF params[2] \in PRIORITY_PROFILES
           THEN Finish(r, [NoResult EXCEPT !.kind = "simple"])
           ELSE Finish(r, [NoResult EXCEPT !.kind = "unsupported"])
    /\ UNCHANGED <<now, upstream, cache, tasks, jobs, served, outcome, probe>>

\* the cache check and the dispatch on the profile
CS_Check(r) ==
    /\ r \in DOMAIN reqs
    /\ reqs[r].op = "calculate_schedule"
    /\ reqs[r].pc = "check"
    /\ LET params == reqs[r].params
           cache_args == request_params_as_list(params)
       IN  IF ResponseHit(cache, now, params, reqs[r].ver)
           THEN Finish(r, [NoResult EXCEPT !.kind = "cached",
                              !.body = ReadCached(cache, "response", now, cache_args)])
           ELSE IF params[2] \in PROVISION_PROFILES
           THEN reqs' = [reqs EXCEPT ![r].pc = "compute"] /\ UNCHANGED reply
           ELSE IF params[2] \in PRIORITY_PROFILES
           THEN Finish(r, [NoResult EXCEPT !.kind = "simple"])
           ELSE Finish(r, [NoResult EXCEPT !.kind = "unsupported"])
    /\ UNCHANGED <<now, upstream, cache, tasks, jobs, served, outcome, probe>>

\* the upstream has no living buildings (or another collaborator fails)
CS_UpstreamError(r) ==
    /\ r \in DOMAIN reqs
    /\ reqs[r].op = "calculate_schedule"
    /\ reqs[r].pc = "compute"
    /\ Finish(r, [NoResult EXCEPT !.kind = "upstream_error"])
    /\ UNCHANGED <<now, upstream, cache, tasks, jobs, served, outcome, probe>>

\* data, matrix and schedule are there: store, register the task, launch the
\* job.  fail names the store that raises SystemError (if any).
CS_Finish(r, fail) ==
    /\ r \in DOMAIN reqs
    /\ reqs[r].op = "calculate_schedule"
    /\ reqs[r].pc = "compute"
    /\ LET params == reqs[r].params
           d == ScenarioData(upstream)
           cache_args == Append(request_params_as_list(params), VersionStr(reqs[r].ver))
           withMatrix == Save(cache, "matrix", now, cache_args, [data |-> d])
           \* the schedule the optimizer gives for this data and these parameters
           scheduler_dto == [data |-> d, params |-> params]
           withResponse == Save(withMatrix, "response", now, cache_args, scheduler_dto)
       IN  CASE fail = "matrix" ->
                  /\ Finish(r, [NoResult EXCEPT !.kind = "SystemError"])
                  /\ UNCHANGED <<cache, tasks, jobs>>
             [] fail = "response" ->
                  /\ cache' = withMatrix
                  /\ Finish(r, [NoResult EXCEPT !.kind = "SystemError"])
                  /\ UNCHANGED <<tasks, jobs>>
             [] fail = "none" ->
                  /\ cache' = withResponse
                  /\ tasks' = create_task(tasks, now, cache_args)
                  /\ jobs' = Append(jobs, [task_id |-> Join(cache_args),
                                           args |-> cache_args, data |-> d,
                                           num_periods |-> params[3],
                                           pc |-> "scheduled"])
                  /\ Finish(r, [NoResult EXCEPT !.kind = "started", !.body = scheduler_dto])
    /\ UNCHANGED <<now, upstream, served, outcome, probe>>

----------------------------------------------------------------------------
(* SirtepService.calculate_provision as the event loop runs it: the        *)
(* coroutine has no await, so it runs from its first line to its return or *)
(* its exception in one step.                                              *)

RunProvision(j, stored) ==
    /\ j \in DOMAIN jobs
    /\ jobs[j].pc = "scheduled"
    /\ LET job == jobs[j]
           d   == DataSet(job.data)
           computed == FirstFailure(d, job.num_periods) = 0
       IN  IF ~check_task(tasks, job.task_id)
           THEN /\ jobs' = [jobs EXCEPT ![j].pc = "raised"]
                /\ UNCHANGED <<cache, tasks>>
           ELSE /\ tasks' = TasksAfterProvision(tasks, job.task_id, d, job.num_periods, stored)
                /\ cache' = IF computed /\ stored
                            THEN Save(cache, "provision", now, job.args,
                                      [table |-> ResultTable(d, job.num_periods)])
                            ELSE cache
                /\ jobs' = [jobs EXCEPT ![j].pc = IF computed /\ stored THEN "returned"
                                                  ELSE "raised"]
    /\ UNCHANGED <<now, upstream, reqs, served, reply, outcome, probe>>

----------------------------------------------------------------------------
(* SirtepService.get_provision_for_request *)

\* the request has passed ProvisionDTO.validate_profile_id and
\* get_scenario_info has answered
GP_Request(p) ==
    /\ served < MaxRequests
    /\ p[2] \in ProvisionDTOProfiles
    /\ served' = served + 1
    /\ reqs' = Append(reqs, [op |-> "get_provision_for_request", params |-> p,
                             pc |-> "poll", ver |-> ScenarioUpdate(upstream)])
    /\ UNCHANGED <<now, upstream, cache, tasks, jobs, reply, outcome, probe>>

\* what the poll answers.  The trailing 400 "was not started" of the code
\* stands behind `if task := get_task(task_id)`, which either raises KeyError
\* or yields a task object (always truthy), so no input reaches it.
ProvisionAnswer(c, ts, t, params, ver) ==
    LET cache_args == request_params_as_list(params)
        task_id    == Join(cache_args)
        cache_name == get_actual_cache_name(c, "response", t, cache_args)
    IN  IF cache_name # <<>>
        THEN IF ver # last_scenario_update(cache_name)
             THEN [NoResult EXCEPT !.kind = "outdated"]
             ELSE IF retrieve_cached_file(c, "provision", t, cache_args) # <<>>
             THEN LET provision_df == ReadCached(c, "provision", t, cache_args).table
                  IN  [NoResult EXCEPT !.kind = "provision",
                           !.body = [periods   |-> [i \in 1..Cardinality(DOMAIN provision_df) |-> i - 1],
                                     provision |-> provision_df]]
             ELSE [NoResult EXCEPT !.kind = "corrupted"]
        ELSE IF task_id \notin DOMAIN ts
        THEN [NoResult EXCEPT !.kind = "KeyError", !.status = "not found"]
        ELSE IF ts[task_id].status \in {"pending", "in_queue", "error"}
        THEN [NoResult EXCEPT !.kind = "in_progress",
                 !.status = ts[task_id].status,
                 !.progress = ts[task_id].task_progress]
        ELSE [NoResult EXCEPT !.kind = "KeyError", !.status = "unexpected status"]

GP_Finish(r) ==
    /\ r \in DOMAIN reqs
    /\ reqs[r].op = "get_provision_for_request"
    /\ reqs[r].pc = "poll"
    /\ Finish(r, ProvisionAnswer(cache, tasks, now, reqs[r].params, reqs[r].ver))
    /\ UNCHANGED <<now, upstream, cache, tasks, jobs, served, outcome, probe>>

----------------------------------------------------------------------------
(* StorageService.delete_irrelevant_cache *)

\* the SirtepStorage attributes in the order __init__ sets them
StorageOrder == <<"matrix", "response", "provision">>

RECURSIVE SweepFrom(_, _, _)
\* the cache and the result after the storages from position i on
SweepFrom(c, t, i) ==
    IF i > Len(StorageOrder) THEN [cache |-> c, result |-> "ok"]
    ELSE LET ns == StorageOrder[i]
             irrelevant_files == get_storage_irrelevant_cache(c[ns], t)
         IN  IF irrelevant_files.raised
             THEN [cache |-> c, result |-> "ValueError"]
             ELSE SweepFrom([c EXCEPT ![ns] = @ \ irrelevant_files.files], t, i + 1)

delete_irrelevant_cache ==
    /\ LET swept == SweepFrom(cache, now, 1)
       IN  /\ cache' = swept.cache
           /\ reply' = [NoReply EXCEPT !.op = "delete_irrelevant_cache",
                                       !.result.kind = swept.result]
    /\ UNCHANGED <<now, upstream, tasks, jobs, reqs, served, outcome, probe>>

----------------------------------------------------------------------------
(* The orchestrator and its collaborators *)

FailPoints == {"none", "matrix", "response"}

Next ==
    \/ Tick
    \/ UpdateScenario
    \/ \E p \in ParamSets : CS_Request(p)
    \/ \E r \in 1..MaxRequests : CS_Check(r)
    \/ \E r \in 1..MaxRequests : CS_UpstreamError(r)
    \/ \E r \in 1..MaxRequests, fail \in FailPoints : CS_Finish(r, fail)
    \/ \E j \in 1..MaxRequests, stored \in BOOLEAN : RunProvision(j, stored)
    \/ \E p \in ParamSets : GP_Request(p)
    \/ \E r \in 1..MaxRequests : GP_Finish(r)
    \/ delete_irrelevant_cache

Spec == Init /\ [][Next]_vars

----------------------------------------------------------------------------
(* The service restarted over the cache directory of an earlier run: the   *)
(* files are on disk, the task registry (in memory) is empty again.  The   *)
(* earlier run has served one calculate_schedule request to its end, job   *)
(* included.                                                               *)

WarmParams == <<1, 1, 2, 4>>

\* the upstream stamp the earlier run has read
WarmUpstream == 1

WarmCache ==
    LET d    == ScenarioData(WarmUpstream)
        args == Append(request_params_as_list(WarmParams),
                       VersionStr(ScenarioUpdate(WarmUpstream)))
        withMatrix   == Save([ns \in Namespaces |-> {}], "matrix", 0, args, [data |-> d])
        withResponse == Save(withMatrix, "response", 0, args,
                             [data |-> d, params |-> WarmParams])
    IN  Save(withResponse, "provision", 0, args,
             [table |-> ResultTable(DataSet(d), WarmParams[3])])

InitWarm ==
    /\ now = 0
    /\ upstream = WarmUpstream
    /\ cache = WarmCache
    /\ tasks = <<>>
    /\ jobs = <<>>
    /\ reqs = <<>>
    /\ served = 0
    /\ reply = NoReply
    /\ outcome = NoOutcome
    /\ probe = NoProbe

SpecWarm == InitWarm /\ [][Next]_vars

----------------------------------------------------------------------------
(* TaskService on its own: any caller, any arguments *)

TaskArgs == {<<StrOfInt(1)>>, <<StrOfInt(1), StrOfInt(2)>>}
StatusInputs == TaskStatus \cup {"complete d"}
ProgressInputs == {-10, 0, 40, 100, 150}
DetailInputs == {None, 1}

Called(op, id, result) == outcome' = [op |-> op, id |-> id, result |-> result]

TS_create_task(args) ==
    /\ tasks' = create_task(tasks, now, args)
    /\ Called("create_task", Join(args), "ok")
    /\ UNCHANGED <<now, upstream, cache, jobs, reqs, served, reply, probe>>

TS_set_task_status(task_id, status) ==
    /\ IF check_task(tasks, task_id)
       THEN /\ tasks' = set_task_status(tasks, task_id, status)
            /\ Called("set_task_status", task_id, "ok")
       ELSE /\ UNCHANGED tasks
            /\ Called("set_task_status", task_id, "KeyError")
    /\ UNCHANGED <<now, upstream, cache, jobs, reqs, served, reply, probe>>

TS_set_task_progress(task_id, progress) ==
    /\ IF check_task(tasks, task_id)
       THEN /\ tasks' = set_task_progress(tasks, task_id, progress)
            /\ Called("set_task_progress", task_id, "ok")
       ELSE /\ UNCHANGED tasks
            /\ Called("set_task_progress", task_id, "KeyError")
    /\ UNCHANGED <<now, upstream, cache, jobs, reqs, served, reply, probe>>

TS_set_task_details(task_id, details) ==
    /\ IF check_task(tasks, task_id)
       THEN /\ tasks' = set_task_details(tasks, task_id, details)
            /\ Called("set_task_details", task_id, "ok")
       ELSE /\ UNCHANGED tasks
            /\ Called("set_task_details", task_id, "KeyError")
    /\ UNCHANGED <<now, upstream, cache, jobs, reqs, served, reply, probe>>

TS_get_task(task_id) ==
    /\ Called("get_task", task_id, IF task_id \in DOMAIN tasks THEN "ok" ELSE "KeyError")
    /\ UNCHANGED <<now, upstream, cache, tasks, jobs, reqs, served, reply, probe>>

TS_delete_task(task_id) ==
    /\ IF task_id \in DOMAIN tasks
       THEN /\ tasks' = delete_task(tasks, task_id)
            /\ Called("delete_task", task_id, "ok")
       ELSE /\ UNCHANGED tasks
            /\ Called("delete_task", task_id, "KeyError")
    /\ UNCHANGED <<now, upstream, cache, jobs, reqs, served, reply, probe>>

TaskIds == {Join(a) : a \in TaskArgs}

NextTasks ==
    \/ \E a \in TaskArgs : TS_create_task(a)
    \/ \E id \in TaskIds, st \in StatusInputs : TS_set_task_status(id, st)
    \/ \E id \in TaskIds, pr \in ProgressInputs : TS_set_task_progress(id, pr)
    \/ \E id \in TaskIds, de \in DetailInputs : TS_set_task_details(id, de)
    \/ \E id \in TaskIds : TS_get_task(id)
    \/ \E id \in TaskIds : TS_delete_task(id)

SpecTasks == Init /\ [][NextTasks]_vars

----------------------------------------------------------------------------
(* MatrixBuilder.build_distance_matrix: distances are whole metres, NaN is *)
(* None                                                                    *)

MaxDistance == 3    \* the planar distances tried are 0..MaxDistance

\* KDTree.sparse_distance_matrix(max_distance) keeps the pairs within
\* max_distance; from_spmatrix(...).to_dense() shows every other pair as 0.0
\* and replace(0.0, nan) turns those, and the pairs at distance 0, into NaN
calculate_availability_matrix(dist, max_distance) ==
    [pr \in DOMAIN dist |->
        LET kept == IF dist[pr] <= max_distance THEN dist[pr] ELSE 0
        IN  IF kept = 0 THEN None ELSE kept]

\* np.where(access_matrix[services_indexes] > current_dist_normative, 0, 1)
\* for the services of each type; a comparison with NaN is False
filter_matrix(access_matrix, stype, radius) ==
    [pr \in DOMAIN access_matrix |->
        LET current_dist_normative == radius[stype[pr[2]]]
        IN  IF access_matrix[pr] # None /\ access_matrix[pr] > current_dist_normative
            THEN 0 ELSE 1]

\* services["radius_availability_meters"].max()
MaxRadius(stype, radius) ==
    CHOOSE r \in {radius[stype[s]] : s \in DOMAIN stype} :
        \A s \in DOMAIN stype : radius[stype[s]] <= r

build_distance_matrix(dist, stype, radius) ==
    filter_matrix(calculate_availability_matrix(dist, MaxRadius(stype, radius)),
                  stype, radius)

\* two buildings, two services of one or two types, the radius of each type
MatrixInputs ==
    { [dist |-> dist, stype |-> stype, radius |-> radius] :
        dist   \in [{1, 2} \X {1, 2} -> 0..MaxDistance],
        stype  \in {<<7, 7>>, <<7, 8>>},
        radius \in [{7, 8} -> {1, 2}] }

InitMatrix ==
    /\ now = 0
    /\ upstream = 0
    /\ cache = [ns \in Namespaces |-> {}]
    /\ tasks = <<>>
    /\ jobs = <<>>
    /\ reqs = <<>>
    /\ served = 0
    /\ reply = NoReply
    /\ outcome = NoOutcome
    /\ probe \in {[fn |-> "build_distance_matrix", done |-> FALSE, d |-> d] :
                    d \in MatrixInputs}

MB_build_distance_matrix ==
    /\ probe.fn = "build_distance_matrix"
    /\ ~probe.done
    /\ probe' = [fn |-> "build_distance_matrix", done |-> TRUE, d |-> probe.d,
                 matrix |-> build_distance_matrix(probe.d.dist, probe.d.stype,
                                                  probe.d.radius)]
    /\ UNCHANGED <<now, upstream, cache, tasks, jobs, reqs, served, reply, outcome>>

NextMatrix == MB_build_distance_matrix

SpecMatrix == InitMatrix /\ [][NextMatrix]_vars

----------------------------------------------------------------------------
(* calculate_provision on its own: any buildings, services, access matrix  *)
(* and built periods                                                       *)

ProbePeriods == 3   \* num_periods of the computation applied on its own

\* the service types requested
ProbeTypes == <<7, 8>>

\* two or three buildings and two services; each attribute from a few
\* values.  The access matrix is one build_distance_matrix produces: acc is
\* the set of its cells > 0.
ProvisionDistances ==
    {[pr \in {1, 2, 3} \X {1, 2} |-> IF pr[2] = 1 THEN near ELSE far[pr[1]]] :
        near \in {1, 2}, far \in [{1, 2, 3} -> {1, 2}]}

ProvisionInputs ==
    { [pop |-> SubSeq(pop, 1, nb), bper |-> SubSeq(bper, 1, nb),
       cap |-> cap, stype |-> stype, sper |-> sper,
       types |-> ProbeTypes,
       acc |-> LET matrix == build_distance_matrix(
                                 [pr \in (1..nb) \X {1, 2} |-> dist[pr]], stype, radius)
               IN  {pr \in DOMAIN matrix : matrix[pr] > 0}] :
        pop    \in {<<p1, 50, p3>> : p1 \in {0, 100}, p3 \in {0, 200}},
        bper   \in {<<b1, b2, b3>> : b1 \in {0, None}, b2 \in {0, 1}, b3 \in {1, None}},
        cap    \in {<<c1, c2>> : c1 \in {0, 30}, c2 \in {0, 70}},
        stype  \in {<<7, 7>>, <<7, 8>>},
        sper   \in {<<s1, s2>> : s1 \in {0, None}, s2 \in {0, 2, None}},
        dist   \in ProvisionDistances,
        radius \in {(7 :> 2 @@ 8 :> 1), (7 :> 1 @@ 8 :> 2)},
        nb     \in {2, 3} }

InitProvision ==
    /\ now = 0
    /\ upstream = 0
    /\ cache = [ns \in Namespaces |-> {}]
    /\ tasks = <<>>
    /\ jobs = <<>>
    /\ reqs = <<>>
    /\ served = 0
    /\ reply = NoReply
    /\ outcome = NoOutcome
    /\ probe \in {[fn |-> "calculate_provision", done |-> FALSE, d |-> d] :
                    d \in ProvisionInputs}

\* the loop of calculate_provision over the probe's data: the cells it has
\* written to result_df, in loop order, with the demand and the capacity
\* counted for each, the progress it has reported, and whether it raised
\* before reaching store_df
PV_calculate_provision ==
    /\ probe.fn = "calculate_provision"
    /\ ~probe.done
    /\ LET d == probe.d
           reported == CellsReported(d, ProbePeriods)
       IN  probe' = [fn |-> "calculate_provision", done |-> TRUE, d |-> d,
                     raised |-> FirstFailure(d, ProbePeriods) # 0,
                     cells |-> [k \in 1..reported |->
                                  ProvisionCell(d, CellPeriod(d, k), CellType(d, k))],
                     demand |-> [k \in 1..reported |->
                                  CellDemand(d, CellPeriod(d, k), CellType(d, k))],
                     capacity |-> [k \in 1..reported |->
                                  CellCapacity(d, CellPeriod(d, k), CellType(d, k))],
                     progress |-> [k \in 1..reported |-> ProgressAfter(d, k)]]
    /\ UNCHANGED <<now, upstream, cache, tasks, jobs, reqs, served, reply, outcome>>

NextProvision == PV_calculate_provision

SpecProvision == InitProvision /\ [][NextProvision]_vars

----------------------------------------------------------------------------
(* Vocabulary of the properties *)

\* a handler has answered in this step; reply' tells which and what
Answered == Len(reqs') < Len(reqs)

\* the version tokens the upstream can show
Versions == 0..ScenarioUpdate(MaxUpstream)

\* the id calculate_schedule gives the task of parameters p at version v
ProvisionTaskId(p, v) == Join(Append(request_params_as_list(p), VersionStr(v)))

\* jobs of a task id that the event loop has not run yet
Scheduled(task_id) ==
    {j \in DOMAIN jobs : jobs[j].task_id = task_id /\ jobs[j].pc = "scheduled"}

\* files written for p (any version, any time) in namespace ns
EntriesFor(ns, p) ==
    {f \in cache[ns] : \E v \in Versions, t \in 0..MaxTime :
        f.name = FileName(ns, StrfTime(t, Dash),
                          Append(request_params_as_list(p), VersionStr(v)))}

\* tasks registered for p, under the id either operation uses
TasksFor(p) ==
    {id \in DOMAIN tasks :
        \/ id = Join(request_params_as_list(p))
        \/ \E v \in Versions : id = ProvisionTaskId(p, v)}

\* the status calculate_provision writes last, or the enum's COMPLETED
IsCompleted(status) == status \in {COMPLETED, "complete d"}

----------------------------------------------------------------------------
(* C1: a poll for parameters whose computation calculate_schedule has      *)
(* started and which has not finished, at an unchanged upstream version,   *)
(* answers with the task's current status and progress, not with an error. *)
C1_PollReportsRunningTask ==
    [][ ( /\ Answered
          /\ reply'.op = "get_provision_for_request"
          /\ reply'.ver = ScenarioUpdate(upstream)
          /\ Scheduled(ProvisionTaskId(reply'.params, reply'.ver)) # {} )
        => LET id == ProvisionTaskId(reply'.params, reply'.ver)
           IN  /\ reply'.result.kind = "in_progress"
               /\ reply'.result.status = tasks[id].status
               /\ reply'.result.progress = tasks[id].task_progress ]_vars

(* C2: a poll for parameters with no cache entry and no task ends with the *)
(* "was not started" error and with no other failure.                      *)
C2_PollNeverStarted ==
    [][ ( /\ Answered
          /\ reply'.op = "get_provision_for_request"
          /\ \A ns \in Namespaces : EntriesFor(ns, reply'.params) = {}
          /\ TasksFor(reply'.params) = {} )
        => reply'.result.kind = "never_started" ]_vars

(* C3: at most one provision computation is in flight per fingerprint: no  *)
(* task id ever has two launched jobs that have not run.                   *)
C3_OneJobInFlight ==
    \A j \in DOMAIN jobs : Cardinality(Scheduled(jobs[j].task_id)) <= 1

(* C4: when the cache check of calculate_schedule finds a response file    *)
(* for the parameters whose version is the upstream version read, the      *)
(* handler returns that response; no task, no job, no cache write.         *)
C4_HitReturnsCached ==
    [][ \A r \in DOMAIN reqs :
          ( /\ reqs[r].op = "calculate_schedule"
            /\ reqs[r].pc = "check"
            /\ ResponseHit(cache, now, reqs[r].params, reqs[r].ver)
            /\ \/ reqs' = Remove(reqs, r)
               \/ reqs' = [reqs EXCEPT ![r].pc = "compute"] )
          => /\ reqs' = Remove(reqs, r)
             /\ reply'.result.kind = "cached"
             /\ reply'.result.body =
                    ReadCached(cache, "response", now, request_params_as_list(reqs[r].params))
             /\ UNCHANGED <<tasks, jobs, cache>> ]_vars

\* a calculate_schedule request has been answered from the cache
C4_Witness ==
    /\ reply.op = "calculate_schedule"
    /\ reply.at = "check"
    /\ reply.result.kind = "cached"
    /\ reply.result.body \in {[data |-> d, params |-> p] : d \in DataSets, p \in ParamSets}

(* C5: once a task is completed or failed, set_task_status,                *)
(* set_task_progress, set_task_details and create_task leave it as it is,  *)
(* and the call that addresses it is rejected.                             *)
C5_TerminalIsFinal ==
    [][ \A id \in DOMAIN tasks :
          ( /\ tasks[id].status \in {COMPLETED, FAILED}
            /\ outcome'.op \in {"set_task_status", "set_task_progress",
                                "set_task_details", "create_task"} )
          => /\ id \in DOMAIN tasks'
             /\ tasks'[id] = tasks[id]
             /\ outcome'.id = id => outcome'.result # "ok" ]_vars

(* C6: the status of every registered task is one of the four TaskStatus   *)
(* values, also after calculate_provision has run to its end.              *)
C6_StatusInEnum ==
    \A id \in DOMAIN tasks : tasks[id].status \in TaskStatus

(* C7: a task is completed only if the provision table of its fingerprint  *)
(* and version has been written to the provision cache.                    *)
C7_CompletedAfterStore ==
    \A id \in DOMAIN tasks :
        IsCompleted(tasks[id].status)
        => \E f \in cache["provision"], t \in 0..now :
              f.name = FileName("provision", StrfTime(t, Dash), <<id>>)

\* some job has run to its end, store included
C7_Witness ==
    \E j \in DOMAIN jobs :
        /\ jobs[j].pc = "returned"
        /\ IsCompleted(tasks[jobs[j].task_id].status)

(* C8: when the background job has stopped with an exception, its task is  *)
(* failed; it is not left running once no job of it remains.               *)
C8_RaisedJobFailsTask ==
    \A j \in DOMAIN jobs :
        (jobs[j].pc = "raised" /\ Scheduled(jobs[j].task_id) = {})
        => tasks[jobs[j].task_id].status # PENDING

(* C9: the stored progress is always within [0, 100], and                  *)
(* set_task_progress on a task that is not running leaves it unchanged.    *)
C9_ProgressClamped ==
    [][ \A id \in DOMAIN tasks' :
          /\ tasks'[id].task_progress \in 0..100
          /\ ( /\ id \in DOMAIN tasks
               /\ tasks[id].status # PENDING
               /\ outcome'.op = "set_task_progress" )
             => tasks'[id].task_progress = tasks[id].task_progress ]_vars

(* C10: the progress of a running task never decreases, whatever           *)
(* calculate_schedule requests and jobs interleave.                        *)
C10_ProgressMonotone ==
    [][ \A id \in DOMAIN tasks :
          tasks[id].status = PENDING
          => /\ id \in DOMAIN tasks'
             /\ tasks'[id].task_progress >= tasks[id].task_progress ]_vars

----------------------------------------------------------------------------
(* Provision: the terms the statements about a cell are made in *)

\* the accessible (building, service of type t) pairs both built by period p
PairsAt(d, p, t) ==
    {pr \in d.acc :
        /\ d.bper[pr[1]] # None /\ d.bper[pr[1]] <= p
        /\ d.sper[pr[2]] # None /\ d.sper[pr[2]] <= p
        /\ d.stype[pr[2]] = t}

\* the summed population of the buildings, the summed capacity of the
\* services, of those pairs
DemandAt(d, p, t)   == Sum(d.pop, {pr[1] : pr \in PairsAt(d, p, t)})
CapacityAt(d, p, t) == Sum(d.cap, {pr[2] : pr \in PairsAt(d, p, t)})

\* some service of type t has a built period <= p
TypeBuiltAt(d, p, t) ==
    \E s \in DOMAIN d.sper : d.sper[s] # None /\ d.sper[s] <= p /\ d.stype[s] = t

\* calculate_provision has been applied to the probe's data
ProvisionDone == probe.fn = "calculate_provision" /\ probe.done

\* the loop stopped with an exception at cell k
RaisedAt(k) == probe.raised /\ Len(probe.cells) = k - 1

(* C11: every provision value calculate_provision computes is >= 0, and a  *)
(* cell whose service type has no service built by its period is computed  *)
(* and is exactly 0.                                                       *)
C11_ProvisionNonNegative ==
    ProvisionDone =>
        \A k \in 1..NumCells(probe.d, ProbePeriods) :
            LET p == CellPeriod(probe.d, k)
                t == CellType(probe.d, k)
            IN  /\ k \in DOMAIN probe.cells => probe.cells[k] >= 0
                /\ ~TypeBuiltAt(probe.d, p, t)
                   => /\ ~RaisedAt(k)
                      /\ k \in DOMAIN probe.cells => probe.cells[k] = 0

\* a finished computation with a positive cell and with a cell of a service
\* type that is built only later
C11_Witness ==
    /\ ProvisionDone
    /\ ~probe.raised
    /\ \E k \in DOMAIN probe.cells : probe.cells[k] > 0
    /\ \E k \in DOMAIN probe.cells :
           /\ ~TypeBuiltAt(probe.d, CellPeriod(probe.d, k), CellType(probe.d, k))
           /\ TypeBuiltAt(probe.d, ProbePeriods - 1, CellType(probe.d, k))
           /\ probe.cells[k] = 0

(* C12: a cell with at least one accessible pair built by its period (and  *)
(* a positive demand) equals round(capacity / demand * 100) to the nearest *)
(* integer.                                                                *)
C12_ProvisionRounded ==
    ProvisionDone =>
        \A k \in DOMAIN probe.cells :
            LET p == CellPeriod(probe.d, k)
                t == CellType(probe.d, k)
            IN  (PairsAt(probe.d, p, t) # {} /\ DemandAt(probe.d, p, t) > 0)
                => probe.cells[k] = Round(CapacityAt(probe.d, p, t) * 100,
                                          DemandAt(probe.d, p, t))

\* the data of the worked example
WorkedExample ==
    [pop   |-> <<100, 50, 200>>, bper |-> <<0, 1, 1>>,
     cap   |-> <<30, 70>>, stype |-> <<7, 7>>, sper |-> <<0, 2>>,
     types |-> ProbeTypes, acc |-> {1, 2, 3} \X {1, 2}]

(* C13: on the worked example (populations 100, 50, 200 built at 0, 1, 1;  *)
(* capacities 30, 70 of one type built at 0, 2; all pairs accessible) the  *)
(* provision of the type is 30 at period 0, 9 at period 1, 29 at period 2. *)
C13_WorkedExample ==
    (ProvisionDone /\ probe.d = WorkedExample) =>
        /\ ~probe.raised
        /\ \A k \in DOMAIN probe.cells :
              (CellType(probe.d, k) = 7 /\ CellPeriod(probe.d, k) <= 2)
              => probe.cells[k] = <<30, 9, 29>>[CellPeriod(probe.d, k) + 1]

(* C14: a cell whose reaching buildings have total population 0 while the  *)
(* reached services have a nonzero total capacity raises no error and is   *)
(* recorded as 0.                                                          *)
C14_ZeroDemandIsZero ==
    ProvisionDone =>
        \A k \in 1..NumCells(probe.d, ProbePeriods) :
            LET p == CellPeriod(probe.d, k)
                t == CellType(probe.d, k)
            IN  ( /\ PairsAt(probe.d, p, t) # {}
                  /\ DemandAt(probe.d, p, t) = 0
                  /\ CapacityAt(probe.d, p, t) > 0 )
                => /\ ~RaisedAt(k)
                   /\ k \in DOMAIN probe.cells => probe.cells[k] = 0

----------------------------------------------------------------------------
(* The access matrix *)

\* the distance of the pair is measured: within the global maximum search
\* radius and not zero
Measured(d, pr) ==
    d.dist[pr] # 0 /\ d.dist[pr] <= MaxRadius(d.stype, d.radius)

(* C15: an entry of the binarized matrix is 1 if and only if the distance  *)
(* of the pair is measured and <= the radius of the service's type; for a  *)
(* pair farther than that radius, and for a pair with no distance entry,   *)
(* it is 0 or missing.                                                     *)
C15_MatrixBinarized ==
    (probe.fn = "build_distance_matrix" /\ probe.done) =>
        \A pr \in DOMAIN probe.matrix :
            LET radius == probe.d.radius[probe.d.stype[pr[2]]]
            IN  /\ probe.matrix[pr] = 1
                   <=> (Measured(probe.d, pr) /\ probe.d.dist[pr] <= radius)
                /\ (probe.d.dist[pr] > radius \/ ~Measured(probe.d, pr))
                   => probe.matrix[pr] \in {0, None}

----------------------------------------------------------------------------
(* The cache *)

\* the file a lookup with the parameters p selects in namespace ns
Selected(ns, p) == retrieve_cached_file(cache, ns, now, request_params_as_list(p))

\* the names of the files written for p in namespace ns
NamesFor(ns, p) == {f.name : f \in EntriesFor(ns, p)}

(* C16: a handler that answers from the cache for the parameters P has     *)
(* selected a file that was written for P, never one written for other     *)
(* parameters, also when the last parameter of P is a prefix of theirs.    *)
C16_NoCollision ==
    [][ ( /\ Answered
          /\ reply'.result.kind \in {"cached", "provision"} )
        => /\ Selected("response", reply'.params) \in NamesFor("response", reply'.params)
           /\ reply'.result.kind = "provision"
              => Selected("provision", reply'.params) \in NamesFor("provision", reply'.params)
      ]_vars

(* C17: a handler that answers a request read at upstream version V from  *)
(* the cache returns payloads of files stored under version V, never those *)
(* of another (older) version.                                             *)
C17_ExactVersion ==
    [][ ( /\ Answered
          /\ reply'.result.kind \in {"cached", "provision"} )
        => /\ last_scenario_update(Selected("response", reply'.params)) = reply'.ver
           /\ reply'.result.kind = "provision"
              => last_scenario_update(Selected("provision", reply'.params)) = reply'.ver
      ]_vars

\* the hour a file was written, as its name tells it
WrittenAt(f) == StrpTime(FirstPiece(f.name, Under), Dash)

\* the file written last for p in namespace ns, if one write was the last
LatestFor(ns, p) ==
    {f \in EntriesFor(ns, p) :
        \A g \in EntriesFor(ns, p) \ {f} : WrittenAt(g) < WrittenAt(f)}

\* handler r makes its cache check in this step
Checks(r) ==
    /\ reqs[r].op = "calculate_schedule"
    /\ reqs[r].pc = "check"
    /\ \/ reqs' = Remove(reqs, r)
       \/ reqs' = [reqs EXCEPT ![r].pc = "compute"]

(* C18: when the response written last for the parameters P carries the    *)
(* version V and is within the actuality span, the cache check of a        *)
(* calculate_schedule request for P at V returns exactly that response.    *)
C18_RoundTrip ==
    [][ \A r \in DOMAIN reqs :
          Checks(r) =>
            \A f \in LatestFor("response", reqs[r].params) :
                ( /\ last_scenario_update(f.name) = reqs[r].ver
                  /\ now - WrittenAt(f) < Actuality )
                => /\ reqs' = Remove(reqs, r)
                   /\ reply'.result.kind = "cached"
                   /\ reply'.result.body = f.payload
      ]_vars

\* this step is a run of the sweep
SweepStep ==
    /\ reply'.op = "delete_irrelevant_cache"
    /\ UNCHANGED <<now, upstream, tasks, jobs, reqs, served, outcome>>

(* C19: a cache write adds a file and leaves the files of every other      *)
(* version as they are: apart from the sweep, a file goes away only by     *)
(* being written again under its own name (same parameters, version and    *)
(* time).                                                                  *)
C19_AppendOnly ==
    [][ \/ SweepStep
        \/ \A ns \in Namespaces :
              \A f \in cache[ns] \ cache'[ns] :
                  \E g \in cache'[ns] \ cache[ns] :
                      /\ g.name = f.name
                      /\ last_scenario_update(g.name) = last_scenario_update(f.name)
      ]_vars

\* the responses of two versions of the same parameters are both cached
C19_Witness ==
    \E p \in ParamSets :
        \E f, g \in EntriesFor("response", p) :
            last_scenario_update(f.name) # last_scenario_update(g.name)

\* the file is older than the maximum age at hour t, in whole hours
TooOld(f, t) == t - WrittenAt(f) > CACHE_ACTUALITY

----------------------------------------------------------------------------
(* The poll *)

\* the version token of the upstream as it is now
CurrentVersion == ScenarioUpdate(upstream)

\* the job calculate_schedule launched for p at version v has returned
CompletedFor(p, v) ==
    \E j \in DOMAIN jobs :
        jobs[j].task_id = ProvisionTaskId(p, v) /\ jobs[j].pc = "returned"

\* a file written for p under version v in namespace ns is within the
\* actuality span
InWindow(ns, p, v) ==
    \E f \in EntriesFor(ns, p) :
        last_scenario_update(f.name) = v /\ now - WrittenAt(f) < Actuality

\* what get_provision_for_request answers when it is called and served now
PollNow(p) == ProvisionAnswer(cache, tasks, now, p, CurrentVersion)

(* C21: once the job of the parameters P at the current upstream version   *)
(* has returned, and while the response and provision files it wrote are   *)
(* within the actuality span, a poll for P answers with the provision      *)
(* result: the periods 0..N-1 and one mapping per period.                  *)
C21_PollAfterCompletion ==
    \A p \in ParamSets :
        ( /\ p[2] \in ProvisionDTOProfiles
          /\ CompletedFor(p, CurrentVersion)
          /\ InWindow("response", p, CurrentVersion)
          /\ InWindow("provision", p, CurrentVersion) )
        => /\ PollNow(p).kind = "provision"
           /\ PollNow(p).body.periods = [i \in 1..p[3] |-> i - 1]
           /\ DOMAIN PollNow(p).body.provision = 0..(p[3] - 1)

----------------------------------------------------------------------------
(* The task registry over time *)

\* The asyncio event loop resumes every handler whose awaited call has
\* answered and runs every job it was given: weak fairness of each of their
\* steps.  For the steps that read the cache or compute the table, WF_vars(A)
\* is written out as []<>~ENABLED <<A>>_vars \/ []<><<A>>_vars, with ENABLED
\* and the step told from the positions of the handlers and the jobs.

\* a handler that has its data: CS_UpstreamError or CS_Finish
Computing ==
    \/ \E r \in 1..MaxRequests : CS_UpstreamError(r)
    \/ \E r \in 1..MaxRequests, fail \in FailPoints : CS_Finish(r, fail)

\* CS_Check or GP_Finish is enabled, and a step of one of them
Waiting == \E r \in DOMAIN reqs : reqs[r].pc \in {"check", "poll"}
Resumed ==
    \E r \in DOMAIN reqs :
        /\ reqs[r].pc \in {"check", "poll"}
        /\ reqs' = Remove(reqs, r) \/ reqs' = [reqs EXCEPT ![r].pc = "compute"]

\* RunProvision is enabled, and a step of it
Launched == \E j \in DOMAIN jobs : jobs[j].pc = "scheduled"
Ran == \E j \in DOMAIN jobs : jobs[j].pc = "scheduled" /\ jobs'[j].pc # "scheduled"

EventLoopFairness ==
    /\ WF_vars(Computing)
    /\ []<>(~Waiting) \/ []<><<Resumed>>_vars
    /\ []<>(~Launched) \/ []<><<Ran>>_vars

\* the system with an event loop that never stops serving
SpecLive == Init /\ [][Next]_vars /\ EventLoopFairness

\* the last answer handed out is the provision result of p
Consumed(p) ==
    /\ reply.op = "get_provision_for_request"
    /\ reply.params = p
    /\ reply.result.kind = "provision"

\* a computation of p at a later version has been registered
Superseded(p, v) ==
    \E w \in Versions : w > v /\ ProvisionTaskId(p, w) \in DOMAIN tasks

(* C22: every task of the registry is eventually deleted from it, once its *)
(* result has been consumed by a poll or a computation of the same         *)
(* parameters at a newer version has superseded it.                        *)
C22_TasksEventuallyDeleted ==
    \A p \in ParamSets, v \in Versions :
        ( /\ ProvisionTaskId(p, v) \in DOMAIN tasks
          /\ Consumed(p) \/ Superseded(p, v) )
        ~> (ProvisionTaskId(p, v) \notin DOMAIN tasks)

----------------------------------------------------------------------------
(* The loop of calculate_provision *)

(* C23: the progress reported after k cells is round(k / (N * T) * 100),   *)
(* N the number of periods and T the number of service types: at most 100, *)
(* and 100 after the last cell, whatever the number of buildings.          *)
C23_ProgressOverCells ==
    ProvisionDone =>
        \A k \in DOMAIN probe.progress :
            /\ probe.progress[k] = Round(k * 100, ProbePeriods * Len(probe.d.types))
            /\ probe.progress[k] <= 100
            /\ k = NumCells(probe.d, ProbePeriods) => probe.progress[k] = 100

\* the input without the buildings and the services whose built period is
\* unset
WithoutUnset(d) ==
    LET bs == {b \in DOMAIN d.bper : d.bper[b] # None}
        ss == {s \in DOMAIN d.sper : d.sper[s] # None}
    IN  [pop   |-> [b \in bs |-> d.pop[b]],
         bper  |-> [b \in bs |-> d.bper[b]],
         cap   |-> [s \in ss |-> d.cap[s]],
         stype |-> [s \in ss |-> d.stype[s]],
         sper  |-> [s \in ss |-> d.sper[s]],
         types |-> d.types,
         acc   |-> d.acc \cap (bs \X ss)]

(* C24: a building or service whose built period is unset contributes to   *)
(* no period: the demand, the capacity and the provision of every cell are *)
(* those of the input without the entities whose built period is unset.    *)
C24_UnsetNeverContributes ==
    ProvisionDone =>
        \A k \in 1..NumCells(probe.d, ProbePeriods) :
            LET p == CellPeriod(probe.d, k)
                t == CellType(probe.d, k)
                e == WithoutUnset(probe.d)
            IN  /\ CellDemand(probe.d, p, t) = CellDemand(e, p, t)
                /\ CellCapacity(probe.d, p, t) = CellCapacity(e, p, t)
                /\ k \in DOMAIN probe.cells => probe.cells[k] = ProvisionCell(e, p, t)
                /\ RaisedAt(k) <=> ProvisionCell(e, p, t) = CellError /\ Len(probe.cells) = k - 1

\* a finished computation over an input with a populated building and a
\* service with capacity whose built periods are unset, and a positive cell
C24_Witness ==
    /\ ProvisionDone
    /\ ~probe.raised
    /\ \E b \in DOMAIN probe.d.bper : probe.d.bper[b] = None /\ probe.d.pop[b] > 0
    /\ \E s \in DOMAIN probe.d.sper : probe.d.sper[s] = None /\ probe.d.cap[s] > 0
    /\ \E k \in DOMAIN probe.cells : probe.cells[k] > 0

\* the cell of the same service type one period later
NextPeriodCell(d, k) == k + Len(d.types)

(* C25: with the built periods fixed and populations and capacities >= 0,  *)
(* the demand and the capacity counted for a service type at period p + 1  *)
(* are each >= those counted for it at period p.                           *)
C25_DemandCapacityGrow ==
    ProvisionDone =>
        \A k \in DOMAIN probe.cells :
            NextPeriodCell(probe.d, k) \in DOMAIN probe.cells
            => /\ probe.demand[NextPeriodCell(probe.d, k)] >= probe.demand[k]
               /\ probe.capacity[NextPeriodCell(probe.d, k)] >= probe.capacity[k]

\* a finished computation in which, for one service type, the demand grows
\* from one period to the next and the capacity grows from one to the next
C25_Witness ==
    /\ ProvisionDone
    /\ ~probe.raised
    /\ \E k \in DOMAIN probe.cells :
           /\ NextPeriodCell(probe.d, k) \in DOMAIN probe.cells
           /\ probe.demand[k] > 0
           /\ probe.demand[NextPeriodCell(probe.d, k)] > probe.demand[k]
    /\ \E k \in DOMAIN probe.cells :
           /\ NextPeriodCell(probe.d, k) \in DOMAIN probe.cells
           /\ probe.capacity[k] > 0
           /\ probe.capacity[NextPeriodCell(probe.d, k)] > probe.capacity[k]

\* the same input with the service types listed in the opposite order
TypesReversed(d) ==
    [d EXCEPT !.types = [i \in 1..Len(d.types) |-> d.types[Len(d.types) + 1 - i]]]

----------------------------------------------------------------------------
(* The background job and its store *)

\* job j runs in this step
Runs(j) == jobs[j].pc = "scheduled" /\ jobs'[j].pc # "scheduled"

\* the name store_df gives the provision file of a job at hour t
ProvisionFileOf(job, t) == FileName("provision", StrfTime(t, Dash), job.args)

\* the table has a row for every period of the job and, in every row, a
\* computed value for every service type of its data
WholeTable(table, job) ==
    /\ DOMAIN table = 0..(job.num_periods - 1)
    /\ \A p \in DOMAIN table :
          /\ DOMAIN table[p] = {DataSet(job.data).types[i] :
                                  i \in 1..Len(DataSet(job.data).types)}
          /\ \A t \in DOMAIN table[p] : table[p][t] # CellError

(* C27: the provision cache never holds a partially computed table: a run  *)
(* of calculate_provision that returns has added exactly one provision     *)
(* file, with every cell computed, and a run that fails has left the       *)
(* provision cache as it was.                                              *)
C27_NoPartialTable ==
    [][ \A j \in DOMAIN jobs :
          Runs(j) =>
            IF jobs'[j].pc = "returned"
            THEN \E f \in cache'["provision"] :
                    /\ f.name = ProvisionFileOf(jobs[j], now)
                    /\ WholeTable(f.payload.table, jobs[j])
                    /\ cache'["provision"] \ {f}
                         = {g \in cache["provision"] : g.name # f.name}
            ELSE cache'["provision"] = cache["provision"]
      ]_vars

\* one job has stopped part-way through its cells and there is no provision
\* file of its parameters; another has returned and its file is there
C27_Witness ==
    /\ \E j \in DOMAIN jobs :
          /\ jobs[j].pc = "raised"
          /\ tasks[jobs[j].task_id].task_progress > 0
          /\ \A f \in cache["provision"], t \in 0..MaxTime :
                f.name # ProvisionFileOf(jobs[j], t)
    /\ \E j \in DOMAIN jobs :
          /\ jobs[j].pc = "returned"
          /\ \E f \in cache["provision"], t \in 0..MaxTime :
                f.name = ProvisionFileOf(jobs[j], t)

\* the jobs calculate_schedule launches in this step
LaunchedNow == DOMAIN jobs' \ DOMAIN jobs

\* a file of the job's arguments written at hour t is in namespace ns of c
Persisted(c, ns, job, t) ==
    \E f \in c[ns] : f.name = FileName(ns, StrfTime(t, Dash), job.args)

(* C28: on a miss for a provision profile calculate_schedule has stored    *)
(* the matrix and the response and registered the task as queued before    *)
(* the job takes its first step, and the job addresses the id registered:  *)
(* the first status update of a job never fails with task-not-found.       *)
C28_RegisteredBeforeJob ==
    [][ /\ \A j \in LaunchedNow :
              /\ jobs'[j].pc = "scheduled"
              /\ Persisted(cache', "matrix", jobs'[j], now)
              /\ Persisted(cache', "response", jobs'[j], now)
              /\ jobs'[j].task_id = Join(jobs'[j].args)
              /\ jobs'[j].task_id \in DOMAIN tasks'
              /\ tasks'[jobs'[j].task_id].status = IN_QUEUE
        /\ \A j \in DOMAIN jobs :
              Runs(j) => /\ check_task(tasks, jobs[j].task_id)
                         /\ tasks'[jobs[j].task_id].status \in {PENDING, "complete d"}
      ]_vars

\* one job is launched and has not begun, its task queued and its matrix
\* and response stored; another job has made its status update
C28_Witness ==
    /\ \E j \in DOMAIN jobs :
          /\ jobs[j].pc = "scheduled"
          /\ tasks[jobs[j].task_id].status = IN_QUEUE
          /\ \E t \in 0..now : /\ Persisted(cache, "matrix", jobs[j], t)
                               /\ Persisted(cache, "response", jobs[j], t)
    /\ \E j \in DOMAIN jobs :
          /\ jobs[j].pc # "scheduled"
          /\ tasks[jobs[j].task_id].status = PENDING

(* C29: get_provision_for_request never returns a provision table computed *)
(* for another upstream version than the one it has read: the table it     *)
(* returns is stored under that version, also while a recomputation for    *)
(* the new version is under way.                                           *)
C29_NoStaleProvision ==
    [][ ( /\ Answered
          /\ reply'.op = "get_provision_for_request"
          /\ reply'.result.kind = "provision" )
        => \E f \in cache["provision"] :
              /\ last_scenario_update(f.name) = reply'.ver
              /\ f.payload.table = reply'.result.body.provision
      ]_vars

----------------------------------------------------------------------------
(* The dispatch on the profile *)

\* the profile ids the statement is about: PROVISION_PROFILES as the source
\* lists them
ProvisionProfileIds == {1, 2, 8, 10, 11, 12, 13}

\* the arguments calculate_schedule and its job name tasks and files with,
\* for the requests of those profiles
ProvisionProfileArgs ==
    {Append(request_params_as_list(p), VersionStr(v)) :
        p \in {q \in ParamSets : q[2] \in ProvisionProfileIds}, v \in Versions}

====
